---- MODULE Spec2Model ----
(***************************************************************************)
(* A model of the undermoon proxy's data plane:                            *)
(*   - the metadata manager (src/proxy/manager.rs): the epoch gate, the    *)
(*     atomically swapped MetaMap snapshot, TMPSWITCH handling and the     *)
(*     routing of a command through migration map and database map;        *)
(*   - the session pipeline (src/proxy/session.rs): the reader task, the   *)
(*     reply FIFO, the writer task and the reply channel of a CmdCtx;      *)
(*   - the coordinator's push of host metadata (src/coordinator/sync.rs);  *)
(*   - the slot map (src/proxy/slot.rs) and the RESP decoder's integer,    *)
(*     line and bulk string functions (src/protocol/decoder.rs).           *)
(* The migration map, the database map and the reply sender live in files  *)
(* of the repository that are not part of the sources at hand; they are    *)
(* modelled from the specification and marked as such in the model map.    *)
(***************************************************************************)
EXTENDS Integers, Sequences, FiniteSets, TLC

\* ------------------------------------------------------------------ bounds

\* Largest epoch a metadata update or a migration task carries.
MaxEpoch == 2
\* Number of metadata updates one proxy accepts in a run.
MaxSnaps == 2
\* Number of frames one connection decodes in a run.
MaxReq == 3
\* Longest slot range handed to SlotMap::from_ranges.
MaxRangeLen == 2
\* Longest key, beside the named ones, handed to SlotMap::get_slot.
MaxKeyLen == 3
\* Longest byte string, beside the named ones, handed to bytes_to_int.
MaxIntLen == 3
\* Longest content of a line handed to decode_line.
MaxLineLen == 2
\* Most bytes in the reader after the length line of a bulk string.
MaxBodyLen == 4
\* Buffer size of the reply FIFO (the code asks for 1024, session.rs:105).
ChannelBuffer == 1

\* ------------------------------------------------------------- constants

SLOT_NUM == 16384
HalfSlot == SLOT_NUM \div 2

Proxies == {1, 2}
SetThreads == {1, 2}

\* ------------------------------------------------------------ data model

\* SlotRangeTag: None, Migrating(meta) or Importing(meta); meta names the
\* source, the destination and the epoch of the migration task.
NoTag == [kind |-> "None", src |-> "", dst |-> "", epoch |-> 0]

MgrTag(kind, e) == [kind |-> kind, src |-> "B1", dst |-> "B2", epoch |-> e]

SlotRange(addr, s, e, tag) == [addr |-> addr, start |-> s, end |-> e, tag |-> tag]

\* ProxyDBMeta.local of one cluster: the ranges each backend address serves.
LocalPlain == {SlotRange("B1", 0, SLOT_NUM, NoTag)}

LocalMig(e) ==
    {SlotRange("B1", 0, HalfSlot, MgrTag("Migrating", e)),
     SlotRange("B1", HalfSlot, SLOT_NUM, NoTag)}

LocalImp(e) ==
    {SlotRange("B2", 0, HalfSlot, MgrTag("Importing", e))}

Locals == {LocalPlain, LocalMig(1), LocalImp(1)}

\* The metadata updates SETDB can carry.
DBMetas == [epoch : 1..MaxEpoch, force : BOOLEAN, local : Locals]

NoMeta == [epoch |-> 0, force |-> FALSE, local |-> {}]

\* MigrationTaskMeta: the slot range of a task with its tag.
TaskMeta(s, e, tag) == [start |-> s, end |-> e, tag |-> tag]

NoTaskMeta == TaskMeta(0, 0, NoTag)

\* The task metas TMPSWITCH can carry: the epoch of the tasks of the
\* topologies above and a later one.
SwitchMetas ==
    {TaskMeta(0, HalfSlot, NoTag)}
      \cup {TaskMeta(0, HalfSlot, MgrTag(k, e)) :
                k \in {"Migrating", "Importing"}, e \in {1, 2}}

MgrSubCmd == {"PreCheck", "PreBlock", "Commit"}

NoSwitch == [meta |-> NoTaskMeta, sub |-> "None"]

\* The slot the clients' keys hash to; it lies in the range that migrates.
TestSlots == {100}

EmptyMap == [k \in {} |-> 0]

\* MetaMap::new(): empty database map, migration map and deleting-task map.
\* id and epoch are history fields: the sequence number of the snapshot and
\* the epoch of the update it was built from.
EmptyMetaMap ==
    [id |-> 0, epoch |-> 0,
     db_map |-> {}, migration_map |-> EmptyMap, deleting_task_map |-> {}]

\* ----------------------------------------------------------------- state

VARIABLES
    \* MetaManager, one per proxy
    meta_map,       \* the installed MetaMap snapshot (ArcSwap)
    epoch,          \* the published epoch (AtomicU64)
    lock,           \* the write lock: 0 when free, else the holder
    tasks,          \* the migration task objects snapshots point to
    launched,       \* task objects whose driver run_tasks has started
    launchedDel,    \* deleting tasks run_deleting_tasks has started
    \* one set_meta call per thread
    setPc, setArg, setNew, setRet,
    \* one handle_switch call at a time
    swPc, swArg, swRet,
    \* one send_cmd_ctx call at a time
    sendPc, sendSlot, sendMap, route,
    \* one client connection (handle_conn)
    rd,             \* the reader task: where it is, or how it ended
    rdPending,      \* the reply receiver the reader is sending into the FIFO
    wr,             \* the writer task: where it is, or how it ended
    wrCur,          \* the reply receiver the writer is waiting on
    nch,            \* number of command pairs created so far
    cmd,            \* per command: what became of its CmdCtx
    chan,           \* per command: its reply channel
    fifo,           \* the bounded FIFO of reply receivers
    wire,           \* what the writer wrote into the buffered writer
    flushed,        \* how much of it a flush has put on the socket
    \* the coordinator pushing one host's metadata (send_meta)
    smPc,           \* where the push is
    smHost,         \* the host metadata being pushed
    smCmd,          \* the command sent: sub command, epoch and flags
    smExec,         \* what client.execute came back with
    smRet,          \* the result of send_meta
    \* SlotMap::from_ranges building a slot map
    frPc,           \* where the construction is
    frInput,        \* slot_map: per address its ranges, in iteration order
    frI, frJ,       \* the address and the range being expanded
    frSlot,         \* slot of the while loop
    frSlots,        \* slots of the address being expanded
    frMap,          \* map: per address its slots
    frSpin,         \* iterations of the while loop that pushed nothing, modulo 2
    slData,         \* the SlotMapData built
    \* SlotMap::get_slot
    gsPc,           \* whether a call is in progress
    gsKey,          \* the key asked about, a sequence of bytes
    gsSlot,         \* the slot returned, -1 when there is none
    \* the RESP decoder's functions
    dcPc,           \* whether a call is in progress
    dcFn,           \* the function called
    dcInput,        \* its argument: the bytes, or the bytes left in the reader
    dcChecks,       \* whether the build checks arithmetic overflow
    dcRes           \* what it returned

metaVars == <<meta_map, epoch, lock, tasks, launched, launchedDel,
              setPc, setArg, setNew, setRet, swPc, swArg, swRet,
              sendPc, sendSlot, sendMap, route>>

sessVars == <<rd, rdPending, wr, wrCur, nch, cmd, chan, fifo, wire, flushed>>

coordVars == <<smPc, smHost, smCmd, smExec, smRet>>

slotVars == <<frPc, frInput, frI, frJ, frSlot, frSlots, frMap, frSpin, slData>>

keyVars == <<gsPc, gsKey, gsSlot>>

codecVars == <<dcPc, dcFn, dcInput, dcChecks, dcRes>>

vars == <<metaVars, sessVars, coordVars, slotVars, keyVars, codecVars>>

NoRoute == [slot |-> 0 - 1, to |-> "", via |-> ""]

MetaInit ==
    /\ meta_map = [p \in Proxies |-> EmptyMetaMap]
    /\ epoch = [p \in Proxies |-> 0]
    /\ lock = [p \in Proxies |-> 0]
    /\ tasks = [p \in Proxies |-> <<>>]
    /\ launched = [p \in Proxies |-> {}]
    /\ launchedDel = [p \in Proxies |-> {}]
    /\ setPc = [p \in Proxies |-> [t \in SetThreads |-> "idle"]]
    /\ setArg = [p \in Proxies |-> [t \in SetThreads |-> NoMeta]]
    /\ setNew = [p \in Proxies |-> [t \in SetThreads |-> [tasks |-> {}, del |-> {}]]]
    /\ setRet = [p \in Proxies |-> [t \in SetThreads |-> "none"]]
    /\ swPc = [p \in Proxies |-> "idle"]
    /\ swArg = [p \in Proxies |-> NoSwitch]
    /\ swRet = [p \in Proxies |-> "none"]
    /\ sendPc = [p \in Proxies |-> "idle"]
    /\ sendSlot = [p \in Proxies |-> 0 - 1]
    /\ sendMap = [p \in Proxies |-> EmptyMetaMap]
    /\ route = [p \in Proxies |-> NoRoute]

\* ------------------------------------------------- migration map

RECURSIVE SetToSeq(_)
SetToSeq(S) ==
    IF S = {} THEN <<>>
    ELSE LET x == CHOOSE y \in S : TRUE IN <<x>> \o SetToSeq(S \ {x})

\* The task metas of the migrating and importing ranges of a local topology.
LocalTaskMetas(local) ==
    {TaskMeta(r.start, r.end, r.tag) : r \in {x \in local : x.tag.kind # "None"}}

\* A task starts at the first state of its side of the state machine.
InitialState(meta) ==
    IF meta.tag.kind = "Migrating" THEN "Preparing" ELSE "Awaiting"

NewTask(meta) ==
    [meta |-> meta, state |-> InitialState(meta), commit_applied |-> FALSE]

RECURSIVE NewTasks(_)
NewTasks(metas) ==
    IF metas = <<>> THEN <<>>
    ELSE <<NewTask(Head(metas))>> \o NewTasks(Tail(metas))

\* MigrationManager::create_new_migration_map: tasks of ranges that are in
\* the old map are carried over (the same task object), tasks of ranges only
\* in the new topology are created, tasks of ranges only in the old map are
\* dropped.  base is the number of task objects that exist already.
create_new_migration_map(old_map, local, base) ==
    LET metas == LocalTaskMetas(local)
        fresh == SetToSeq(metas \ DOMAIN old_map)
        idx(k) == CHOOSE i \in 1..Len(fresh) : fresh[i] = k
    IN [map |-> [k \in metas |->
                    IF k \in DOMAIN old_map THEN old_map[k] ELSE base + idx(k)],
        new_tasks |-> NewTasks(fresh),
        new_ids |-> {base + i : i \in 1..Len(fresh)}]

\* MigrationMap::get_left_slots_after_change: the ranges whose task is in the
\* old map and not in the new one.
get_left_slots_after_change(old_map, new_map, local) ==
    DOMAIN old_map \ DOMAIN new_map

\* MigrationManager::create_new_deleting_task_map: a deleting task for every
\* range that left; those not in the old map are new and are to be launched.
create_new_deleting_task_map(old_del, local, left) ==
    [map |-> left, new_tasks |-> left \ old_del]

\* The same task viewed from the importing end.
ToImporting(meta) ==
    IF meta.tag.kind = "Migrating"
    THEN [meta EXCEPT !.tag.kind = "Importing"]
    ELSE meta

SourceStates == <<"Preparing", "PreCheck", "PreBlock", "Committing", "Committed">>
DestStates == <<"Awaiting", "Serving", "Switched">>

Rank(state) ==
    IF \E i \in 1..Len(SourceStates) : SourceStates[i] = state
    THEN CHOOSE i \in 1..Len(SourceStates) : SourceStates[i] = state
    ELSE CHOOSE i \in 1..Len(DestStates) : DestStates[i] = state

\* The state a switch command asks a task to be in.
SwitchTarget(meta, sub) ==
    IF meta.tag.kind = "Migrating"
    THEN (CASE sub = "PreCheck" -> "PreCheck"
            [] sub = "PreBlock" -> "PreBlock"
            [] OTHER -> "Committed")
    ELSE (CASE sub = "PreCheck" -> "Awaiting"
            [] sub = "PreBlock" -> "Serving"
            [] OTHER -> "Switched")

\* A switch command advances the state and never takes it back; a repeated
\* Commit is a no-op success.
AdvanceState(task, sub) ==
    LET target == SwitchTarget(task.meta, sub)
    IN IF Rank(target) > Rank(task.state)
       THEN [task EXCEPT !.state = target]
       ELSE task

Finished(task) == task.state \in {"Committed", "Switched"}

\* The task of a migration map a switch argument names.
SwitchTask(map, arg_meta) == {k \in DOMAIN map : ToImporting(k) = arg_meta}

\* The task of a migration map whose range holds the slot.
SlotTask(map, slot) == {k \in DOMAIN map : k.start <= slot /\ slot < k.end}

\* MigrationMap::send: the routing policy of a migrating range.
MigrationMap_send(map, ts, slot) ==
    IF SlotTask(map, slot) = {} THEN "SlotNotFound"
    ELSE LET k == CHOOSE x \in SlotTask(map, slot) : TRUE
         IN IF Finished(ts[map[k]]) THEN k.tag.dst ELSE k.tag.src

\* MigrationMap::get_finished_tasks.
get_finished_tasks(map, ts) == {k \in DOMAIN map : Finished(ts[map[k]])}

\* A task object lives as long as a snapshot that holds it: once neither the
\* installed snapshot nor a leased one points to it, it is dropped.
DroppedTask == [meta |-> NoTaskMeta, state |-> "Dropped", commit_applied |-> FALSE]

MapRange(map) == {map[k] : k \in DOMAIN map}

DropUnreferenced(ts, live) ==
    [i \in DOMAIN ts |-> IF i \in live THEN ts[i] ELSE DroppedTask]

\* ------------------------------------------------------------ database map

\* DatabaseMap::from_db_map: the slot map of the local ranges
\* (SlotMap::from_ranges takes every range, whatever its tag).
from_db_map(db_meta) ==
    {[addr |-> r.addr, start |-> r.start, end |-> r.end] : r \in db_meta.local}

\* SlotMapData::get: the address owning the slot, "" for None.
SlotMap_get(db_map, slot) ==
    IF slot < SLOT_NUM /\ \E r \in db_map : r.start <= slot /\ slot < r.end
    THEN (CHOOSE r \in db_map : r.start <= slot /\ slot < r.end).addr
    ELSE ""

\* ------------------------------------------------ MetaManager::set_meta

OtherSetVars == <<swPc, swArg, swRet, sendPc, sendSlot, sendMap, route>>

\* The gate with the comparison a slip would write: an equal epoch passes.
is_old_epoch_strict(new_epoch, force, current) == new_epoch < current /\ ~force

\* The epoch gate: an update at or below the current epoch is old unless it
\* carries FORCE.
is_old_epoch(new_epoch, force, current) == new_epoch <= current /\ ~force

\* The new migration map built from an empty map instead of the old one.
old_migration_map_fresh(old_meta_map) == EmptyMap

\* The migration map the new one is built from: that of the loaded snapshot.
old_migration_map(old_meta_map) == old_meta_map.migration_map

\* A thread calls set_meta(db_meta) and waits for the write lock.
set_meta_call(p, t, db_meta) ==
    /\ setPc[p][t] = "idle"
    /\ meta_map[p].id + Cardinality({u \in SetThreads : setPc[p][u] # "idle"}) < MaxSnaps
    /\ setPc' = [setPc EXCEPT ![p][t] = "lock"]
    /\ setArg' = [setArg EXCEPT ![p][t] = db_meta]
    /\ setRet' = [setRet EXCEPT ![p][t] = "none"]
    /\ UNCHANGED <<meta_map, epoch, lock, tasks, launched, launchedDel, setNew>>
    /\ UNCHANGED OtherSetVars

\* The rejection with the epoch published before the gate is consulted.
set_meta_reject_publish(p, t) ==
    /\ setPc' = [setPc EXCEPT ![p][t] = "idle"]
    /\ setArg' = [setArg EXCEPT ![p][t] = NoMeta]
    /\ setRet' = [setRet EXCEPT ![p][t] = "OldEpoch"]
    /\ epoch' = [epoch EXCEPT ![p] = setArg[p][t].epoch]
    /\ UNCHANGED <<meta_map, lock, tasks, launched, launchedDel, setNew>>

\* return Err(DBError::OldEpoch): the guard is dropped, nothing else is done.
set_meta_reject(p, t) ==
    /\ setPc' = [setPc EXCEPT ![p][t] = "idle"]
    /\ setArg' = [setArg EXCEPT ![p][t] = NoMeta]
    /\ setRet' = [setRet EXCEPT ![p][t] = "OldEpoch"]
    /\ UNCHANGED <<meta_map, epoch, lock, tasks, launched, launchedDel, setNew>>

\* A lock that is handed to every caller at once.
lock_free_always(p) == TRUE

\* self.lock.lock(): the mutex is given to a caller when nobody holds it.
lock_free(p) == lock[p] = 0

\* The lock is taken and the epoch is checked; nothing can interleave between
\* the two, as the epoch is written under the lock only.
set_meta_lock(p, t) ==
    /\ setPc[p][t] = "lock"
    /\ lock_free(p)
    /\ IF is_old_epoch(setArg[p][t].epoch, setArg[p][t].force, epoch[p])
       THEN set_meta_reject(p, t)
       ELSE /\ lock' = [lock EXCEPT ![p] = t]
            /\ setPc' = [setPc EXCEPT ![p][t] = "store"]
            /\ UNCHANGED <<meta_map, epoch, tasks, launched, launchedDel,
                           setArg, setNew, setRet>>
    /\ UNCHANGED OtherSetVars

\* Every task of the new map kept for launching, carried over or not.
new_tasks_to_run_all(mm) == MapRange(mm.map)

\* let (migration_map, new_tasks) = ..: the tasks set_meta keeps for
\* run_tasks are the new tasks create_new_migration_map returned.
new_tasks_to_run(mm) == mm.new_ids

\* The old snapshot is loaded, the new maps are built from it and the new
\* snapshot is stored.
set_meta_store(p, t) ==
    /\ setPc[p][t] = "store"
    /\ LET db_meta == setArg[p][t]
           old_meta_map == meta_map[p]
           mm == create_new_migration_map(old_migration_map(old_meta_map),
                                          db_meta.local, Len(tasks[p]))
           left == get_left_slots_after_change(old_meta_map.migration_map,
                                               mm.map, db_meta.local)
           dm == create_new_deleting_task_map(old_meta_map.deleting_task_map,
                                              db_meta.local, left)
       IN /\ meta_map' = [meta_map EXCEPT ![p] =
                 [id |-> old_meta_map.id + 1,
                  epoch |-> db_meta.epoch,
                  db_map |-> from_db_map(db_meta),
                  migration_map |-> mm.map,
                  deleting_task_map |-> dm.map]]
          /\ tasks' = [tasks EXCEPT ![p] =
                 DropUnreferenced(@ \o mm.new_tasks,
                     MapRange(mm.map) \cup MapRange(sendMap[p].migration_map))]
          /\ setNew' = [setNew EXCEPT ![p][t] =
                 [tasks |-> new_tasks_to_run(mm), del |-> dm.new_tasks]]
    /\ setPc' = [setPc EXCEPT ![p][t] = "epoch"]
    /\ UNCHANGED <<epoch, lock, launched, launchedDel, setArg, setRet>>
    /\ UNCHANGED OtherSetVars

\* self.epoch.store(db_meta.get_epoch()).
set_meta_epoch(p, t) ==
    /\ setPc[p][t] = "epoch"
    /\ epoch' = [epoch EXCEPT ![p] = setArg[p][t].epoch]
    /\ setPc' = [setPc EXCEPT ![p][t] = "run"]
    /\ UNCHANGED <<meta_map, lock, tasks, launched, launchedDel,
                   setArg, setNew, setRet>>
    /\ UNCHANGED OtherSetVars

\* run_tasks and run_deleting_tasks start the new drivers; then Ok(()) is
\* returned and the guard, alive until the end of the function, is dropped.
set_meta_run(p, t) ==
    /\ setPc[p][t] = "run"
    /\ launched' = [launched EXCEPT ![p] = @ \cup setNew[p][t].tasks]
    /\ launchedDel' = [launchedDel EXCEPT ![p] = @ \cup setNew[p][t].del]
    /\ lock' = [lock EXCEPT ![p] = 0]
    /\ setPc' = [setPc EXCEPT ![p][t] = "idle"]
    /\ setArg' = [setArg EXCEPT ![p][t] = NoMeta]
    /\ setNew' = [setNew EXCEPT ![p][t] = [tasks |-> {}, del |-> {}]]
    /\ setRet' = [setRet EXCEPT ![p][t] = "Ok"]
    /\ UNCHANGED <<meta_map, epoch, tasks>>
    /\ UNCHANGED OtherSetVars

\* ---------------------------------------------- MetaManager::handle_switch

OtherSwVars == <<meta_map, epoch, lock, launched, launchedDel,
                 setPc, setArg, setNew, setRet, sendPc, sendSlot, sendMap, route>>

\* UMCTL TMPSWITCH arrives.
handle_switch_call(p, switch_arg) ==
    /\ swPc[p] = "idle"
    /\ swPc' = [swPc EXCEPT ![p] = "check"]
    /\ swArg' = [swArg EXCEPT ![p] = switch_arg]
    /\ swRet' = [swRet EXCEPT ![p] = "none"]
    /\ UNCHANGED tasks
    /\ UNCHANGED OtherSwVars

handle_switch_return(p, res) ==
    /\ swPc' = [swPc EXCEPT ![p] = "idle"]
    /\ swArg' = [swArg EXCEPT ![p] = NoSwitch]
    /\ swRet' = [swRet EXCEPT ![p] = res]

\* An epoch check that lets every switch through.
is_not_ready_never(current, arg_epoch) == FALSE

\* self.epoch.load(Ordering::SeqCst) < arg_epoch
is_not_ready(current, arg_epoch) == current < arg_epoch

\* The tag is matched and the task epoch is compared with the published one.
handle_switch_check(p) ==
    /\ swPc[p] = "check"
    /\ LET tag == swArg[p].meta.tag
       IN IF tag.kind = "None" THEN handle_switch_return(p, "InvalidArg")
          ELSE IF is_not_ready(epoch[p], tag.epoch)
               THEN handle_switch_return(p, "NotReady")
          ELSE /\ swPc' = [swPc EXCEPT ![p] = "apply"]
               /\ UNCHANGED <<swArg, swRet>>
    /\ UNCHANGED tasks
    /\ UNCHANGED OtherSwVars

\* MigrationMap::handle_switch, its result: the task the argument names is
\* looked up by its importing form.
MigrationMap_handle_switch_ret(map, task_meta) ==
    IF SwitchTask(map, task_meta) = {} THEN "TaskNotFound" ELSE "Ok"

\* MigrationMap::handle_switch, its effect on the task objects ts.
MigrationMap_handle_switch_tasks(map, ts, task_meta, sub) ==
    IF SwitchTask(map, task_meta) = {} THEN ts
    ELSE LET k == CHOOSE x \in SwitchTask(map, task_meta) : TRUE
             adv == AdvanceState(ts[map[k]], sub)
         IN [ts EXCEPT ![map[k]] =
                [adv EXCEPT !.commit_applied = @ \/ sub = "Commit"]]

\* MigrationMap::handle_switch on the task the argument names.
MigrationMap_handle_switch(p, map, task_meta, sub) ==
    /\ tasks' = [tasks EXCEPT ![p] =
                    MigrationMap_handle_switch_tasks(map, tasks[p], task_meta, sub)]
    /\ handle_switch_return(p, MigrationMap_handle_switch_ret(map, task_meta))

\* The switch argument handed on without the change of tag.
switch_task_meta_as_given(meta) == meta

\* task_meta: the argument's meta, a migrating tag changed to the importing
\* tag of the same MigrationMeta.
switch_task_meta(meta) == ToImporting(meta)

\* MetaManager::handle_switch as a function of what it reads: the result and
\* the task objects it leaves.
handle_switch_outcome(current, map, ts, switch_arg) ==
    LET tag == switch_arg.meta.tag
    IN IF tag.kind = "None" THEN [ret |-> "InvalidArg", tasks |-> ts]
       ELSE IF is_not_ready(current, tag.epoch) THEN [ret |-> "NotReady", tasks |-> ts]
       ELSE [ret |-> MigrationMap_handle_switch_ret(map, switch_task_meta(switch_arg.meta)),
             tasks |-> MigrationMap_handle_switch_tasks(map, ts,
                          switch_task_meta(switch_arg.meta), switch_arg.sub)]

\* The snapshot is loaded and the switch, with the importing tag, is handed
\* to its migration map.
handle_switch_apply(p) ==
    /\ swPc[p] = "apply"
    /\ MigrationMap_handle_switch(p, meta_map[p].migration_map,
                                  switch_task_meta(swArg[p].meta), swArg[p].sub)
    /\ UNCHANGED OtherSwVars

\* ----------------------------------------------------------- send_cmd_ctx

OtherSendVars == <<meta_map, epoch, lock, launched, launchedDel,
                   setPc, setArg, setNew, setRet, swPc, swArg, swRet>>

\* meta_map.lease(): the command holds one snapshot for the whole call.
send_cmd_ctx_lease(p, slot) ==
    /\ sendPc[p] = "idle"
    /\ sendPc' = [sendPc EXCEPT ![p] = "migration"]
    /\ sendSlot' = [sendSlot EXCEPT ![p] = slot]
    /\ sendMap' = [sendMap EXCEPT ![p] = meta_map[p]]
    /\ route' = [route EXCEPT ![p] = NoRoute]
    /\ UNCHANGED tasks
    /\ UNCHANGED OtherSendVars

send_cmd_ctx_done(p, to, via) ==
    /\ sendPc' = [sendPc EXCEPT ![p] = "idle"]
    /\ sendMap' = [sendMap EXCEPT ![p] = EmptyMetaMap]
    /\ route' = [route EXCEPT ![p] = [slot |-> sendSlot[p], to |-> to, via |-> via]]
    /\ tasks' = [tasks EXCEPT ![p] =
           DropUnreferenced(@, MapRange(meta_map[p].migration_map))]
    /\ UNCHANGED sendSlot

\* The command handed to the database map without asking the migration map.
send_cmd_ctx_skip_migration(p) ==
    /\ sendPc[p] = "migration"
    /\ sendPc' = [sendPc EXCEPT ![p] = "db"]
    /\ UNCHANGED <<sendSlot, sendMap, route, tasks>>
    /\ UNCHANGED OtherSendVars

\* A match that takes the command on to the database map after any error.
hands_back_on_any_error(res) == res \in {"SlotNotFound", "Err"}

\* The match on the result of migration_map.send: only
\* Err(DBSendError::SlotNotFound(cmd_ctx)) gives the command back.
hands_back(res) == res = "SlotNotFound"

\* The command is offered to the migration map of the leased snapshot; only
\* SlotNotFound hands it back for the database map.
send_cmd_ctx_migration(p) ==
    /\ sendPc[p] = "migration"
    /\ LET to == MigrationMap_send(sendMap[p].migration_map, tasks[p], sendSlot[p])
       IN IF ~hands_back(to)
          THEN send_cmd_ctx_done(p, to, "migration_map")
          ELSE /\ sendPc' = [sendPc EXCEPT ![p] = "db"]
               /\ UNCHANGED <<sendSlot, sendMap, route, tasks>>
    /\ UNCHANGED OtherSendVars

\* The migration map has a task for the slot and its send fails with an
\* error other than SlotNotFound: the error is logged and the call returns.
send_cmd_ctx_migration_error(p) ==
    /\ sendPc[p] = "migration"
    /\ SlotTask(sendMap[p].migration_map, sendSlot[p]) # {}
    /\ IF ~hands_back("Err")
       THEN send_cmd_ctx_done(p, "", "error")
       ELSE /\ sendPc' = [sendPc EXCEPT ![p] = "db"]
            /\ UNCHANGED <<sendSlot, sendMap, route, tasks>>
    /\ UNCHANGED OtherSendVars

\* The database map of whatever snapshot is installed when the command
\* gets there.
send_db_map_reloaded(p) == meta_map[p].db_map

\* meta_map.db_map: the database map of the snapshot leased at the start.
send_db_map(p) == sendMap[p].db_map

\* db_map.send of the same snapshot; a slot nobody owns is logged and dropped.
send_cmd_ctx_db(p) ==
    /\ sendPc[p] = "db"
    /\ send_cmd_ctx_done(p, SlotMap_get(send_db_map(p), sendSlot[p]), "db_map")
    /\ UNCHANGED OtherSendVars

\* ------------------------------------------------------ reply channel

\* new_command_pair: a sender that has not been used and an empty channel.
\* writes is the sequence of results written to the channel.
NewChannel == [taken |-> FALSE, writes |-> <<>>]

\* CmdReplySender::try_send: the sender is taken out on the first call and
\* the result is written; a later call finds nothing and writes nothing.
CmdReplySender_try_send(ch, result) ==
    IF ch.taken THEN ch
    ELSE [taken |-> TRUE, writes |-> Append(ch.writes, result)]

\* CmdReplySender::send: try_send, with "send again" reported as an error.
CmdReplySender_send(ch, result) == CmdReplySender_try_send(ch, result)

\* A drop handler that sends nothing.
CmdCtx_drop_nothing(ch) == ch

\* impl Drop for CmdCtx: make sure that ctx will always be sent back.
CmdCtx_drop(ch) == CmdReplySender_try_send(ch, "Dropped")

\* CmdTask::set_result: the result is sent; self, taken by value, is dropped
\* at the end of the function.
CmdCtx_set_result(ch, result) == CmdCtx_drop(CmdReplySender_send(ch, result))

\* What a backend hands to set_result: Ok(resp) or Err(CommandError).
BackendResults == {"Ok", "InnerError"}

IsError(result) == result \in {"InnerError", "Dropped"}

\* ---------------------------------------------------------- the session

SessInit ==
    /\ rd = "decode"
    /\ rdPending = 0
    /\ wr = "poll"
    /\ wrCur = 0
    /\ nch = 0
    /\ cmd = [i \in 1..MaxReq |-> "none"]
    /\ chan = [i \in 1..MaxReq |-> NewChannel]
    /\ fifo = <<>>
    /\ wire = <<>>
    /\ flushed = 0

Running(task) == task \in {"decode", "send", "send_invalid", "poll", "wait"}

Failed(task) == task \in {"Err(Io)", "Err(InvalidProtocol)", "Err(Canceled)", "Err(CmdErr)"}

\* Both tasks left to themselves: the end of one does not touch the other.
select_no_cancel(reader, writer) == [rd |-> reader, wr |-> writer]

\* reader_handler.select(writer_handler).then(..): as soon as one of the two
\* futures is done, the other one is dropped with the result.
select(reader, writer) ==
    IF ~Running(reader) THEN [rd |-> reader, wr |-> "cancelled"]
    ELSE IF ~Running(writer) THEN [rd |-> "cancelled", wr |-> writer]
    ELSE [rd |-> reader, wr |-> writer]

\* One poll of the connection's future: the tasks' new states go through
\* select.
handle_conn(reader, writer) ==
    /\ rd' = select(reader, writer).rd
    /\ wr' = select(reader, writer).wr

\* mpsc::channel(buffer): a sender that put a message past the buffer is
\* parked until the receiver takes one.
\* A sender that is never parked.
SenderParked_never(q) == FALSE

SenderParked(q) == Len(q) > ChannelBuffer

\* handle_read, Ok((reader, resp)): a command pair is made and the CmdCtx is
\* handed to the handler; the receiver is then to be sent to the writer.
handle_read_decode(id) ==
    /\ rd = "decode"
    /\ nch < MaxReq
    /\ id = nch + 1
    /\ nch' = id
    /\ cmd' = [cmd EXCEPT ![id] = "CmdCtx"]
    /\ rdPending' = id
    /\ handle_conn("send", wr)
    /\ UNCHANGED <<wrCur, chan, fifo, wire, flushed>>

\* tx.send(reply_receiver), waiting while the sender is parked.
handle_read_send ==
    /\ rd = "send"
    /\ ~SenderParked(fifo)
    /\ fifo' = Append(fifo, rdPending)
    /\ rdPending' = 0
    /\ handle_conn("decode", wr)
    /\ UNCHANGED <<wrCur, nch, cmd, chan, wire, flushed>>

\* handle_read, Err(DecodeError::InvalidProtocol): a pair is made for an
\* empty command and the error reply is put on its channel at once.
handle_read_invalid(id) ==
    /\ rd = "decode"
    /\ nch < MaxReq
    /\ id = nch + 1
    /\ nch' = id
    /\ cmd' = [cmd EXCEPT ![id] = "invalid"]
    /\ chan' = [chan EXCEPT ![id] = CmdReplySender_send(@, "Err invalid protocol")]
    /\ rdPending' = id
    /\ handle_conn("send_invalid", wr)
    /\ UNCHANGED <<wrCur, fifo, wire, flushed>>

\* The receiver of the error reply is sent and, in the same poll, the
\* reader's future resolves to Err(SessionError::InvalidProtocol).
handle_read_send_invalid ==
    /\ rd = "send_invalid"
    /\ ~SenderParked(fifo)
    /\ fifo' = Append(fifo, rdPending)
    /\ rdPending' = 0
    /\ handle_conn("Err(InvalidProtocol)", wr)
    /\ UNCHANGED <<wrCur, nch, cmd, chan, wire, flushed>>

\* handle_read, Err(DecodeError::Io(e)): end of input or a read error.
handle_read_io_error ==
    /\ rd = "decode"
    /\ handle_conn("Err(Io)", wr)
    /\ UNCHANGED <<rdPending, wrCur, nch, cmd, chan, fifo, wire, flushed>>

\* The receiver the writer takes up: whichever queued reply is ready first.
next_receiver_ready(q, ch) ==
    IF \E i \in 1..Len(q) : ch[q[i]].writes # <<>>
    THEN CHOOSE i \in 1..Len(q) : ch[q[i]].writes # <<>>
    ELSE 1

\* The position in the FIFO of the receiver the writer takes up next: the
\* event stream hands the receivers over in the order they were sent.
next_receiver(q, ch) == 1

Remove(q, i) == SubSeq(q, 1, i - 1) \o SubSeq(q, i + 1, Len(q))

\* handle_write, WriteEvent::Write(reply_receiver): the fold takes the next
\* event only when the future of the one before is done.
handle_write_recv ==
    /\ wr = "poll"
    /\ fifo # <<>>
    /\ wrCur' = fifo[next_receiver(fifo, chan)]
    /\ fifo' = Remove(fifo, next_receiver(fifo, chan))
    /\ handle_conn(rd, "wait")
    /\ UNCHANGED <<rdPending, nch, cmd, chan, wire, flushed>>

\* What reaches the buffered writer for a result.
ReplyBytes(result) ==
    CASE result = "Ok" -> "reply"
      [] result = "Err invalid protocol" -> "-Err invalid protocol"
      [] OTHER -> "-Err cmd error"

\* write_to_backend with the error arm handing the error on.
write_to_backend_propagate(id, result) ==
    IF IsError(result)
    THEN /\ handle_conn(rd, "Err(CmdErr)")
         /\ UNCHANGED wire
    ELSE /\ wire' = Append(wire, [ch |-> id, out |-> ReplyBytes(result)])
         /\ handle_conn(rd, "poll")

\* write_to_backend: the reply, or the text of the command's error, is
\* written and the writer is handed back to the fold.
write_to_backend(id, result) ==
    /\ wire' = Append(wire, [ch |-> id, out |-> ReplyBytes(result)])
    /\ handle_conn(rd, "poll")

\* reply_receiver.wait_response() has a result.
handle_write_reply ==
    /\ wr = "wait"
    /\ chan[wrCur].writes # <<>>
    /\ write_to_backend(wrCur, Head(chan[wrCur].writes))
    /\ wrCur' = 0
    /\ UNCHANGED <<rdPending, nch, cmd, chan, fifo, flushed>>

\* handle_write, WriteEvent::Flush: taken up like any event, between two
\* receivers.
handle_write_flush ==
    /\ wr = "poll"
    /\ flushed < Len(wire)
    /\ flushed' = Len(wire)
    /\ handle_conn(rd, "poll")
    /\ UNCHANGED <<rdPending, wrCur, nch, cmd, chan, fifo, wire>>

\* write_all or flush fails: SessionError::Io.
handle_write_io_error ==
    /\ \/ wr = "poll"
       \/ wr = "wait" /\ chan[wrCur].writes # <<>>
    /\ handle_conn(rd, "Err(Io)")
    /\ UNCHANGED <<rdPending, wrCur, nch, cmd, chan, fifo, wire, flushed>>

\* Whoever owns the CmdCtx calls set_result.
set_result(id, result) ==
    /\ cmd[id] = "CmdCtx"
    /\ chan' = [chan EXCEPT ![id] = CmdCtx_set_result(@, result)]
    /\ cmd' = [cmd EXCEPT ![id] = result]
    /\ UNCHANGED <<rd, rdPending, wr, wrCur, nch, fifo, wire, flushed>>

\* Whoever owns the CmdCtx drops it without a result.
drop_cmd_ctx(id) ==
    /\ cmd[id] = "CmdCtx"
    /\ chan' = [chan EXCEPT ![id] = CmdCtx_drop(@)]
    /\ cmd' = [cmd EXCEPT ![id] = "dropped"]
    /\ UNCHANGED <<rd, rdPending, wr, wrCur, nch, fifo, wire, flushed>>

\* ------------------------------------------- coordinator: send_meta

\* Host: the metadata of one proxy as the broker holds it.
Hosts == [epoch : 1..MaxEpoch, local : Locals]

NoHost == [epoch |-> 0, local |-> {}]

NoCmd == [sub |-> "", epoch |-> 0, force |-> FALSE]

\* The types of reply a proxy can give.
RespTypes == {"Error", "Simple", "Bulk", "Integer", "Array"}

\* What client.execute resolves to: a reply, or a transport failure.
ExecOutcomes ==
    {[kind |-> "Ok", resp |-> t] : t \in RespTypes}
      \cup {[kind |-> "Err", resp |-> "RedisClientError"]}

NoExec == [kind |-> "None", resp |-> ""]

CoordInit ==
    /\ smPc = "idle"
    /\ smHost = NoHost
    /\ smCmd = NoCmd
    /\ smExec = NoExec
    /\ smRet = "none"

\* Flags that ask the proxy to take the metadata whatever its epoch.
push_flags_force == [force |-> TRUE]

\* DBMapFlags { force: false }, the flags both senders give to send_meta.
push_flags == [force |-> FALSE]

\* HostMetaRespSender / PeerMetaRespSender: send_meta is called with the
\* sub command and DBMapFlags { force: false }; the command carries the
\* host's own epoch.
send_meta_call(host, sub_command) ==
    /\ smPc = "idle"
    /\ smPc' = "execute"
    /\ smHost' = host
    /\ smCmd' = [sub |-> sub_command, epoch |-> host.epoch, force |-> push_flags.force]
    /\ smExec' = NoExec
    /\ smRet' = "none"

\* client.execute(address, cmd) resolves.
send_meta_execute(outcome) ==
    /\ smPc = "execute"
    /\ smPc' = "reply"
    /\ smExec' = outcome
    /\ UNCHANGED <<smHost, smCmd, smRet>>

\* A reading of the reply that takes only a simple string for success.
send_meta_result_strict(outcome) ==
    IF outcome.kind = "Err" THEN "Redis"
    ELSE IF outcome.resp = "Simple" THEN "Ok"
    ELSE "InvalidReply"

\* map_err(CoordinateError::Redis), then the match on the reply.
send_meta_result(outcome) ==
    IF outcome.kind = "Err" THEN "Redis"
    ELSE IF outcome.resp = "Error" THEN "InvalidReply"
    ELSE "Ok"

send_meta_return ==
    /\ smPc = "reply"
    /\ smPc' = "idle"
    /\ smRet' = send_meta_result(smExec)
    /\ UNCHANGED <<smHost, smCmd, smExec>>

\* ---------------------------------------- a push arriving at the proxy

\* The ProxyDBMeta the proxy makes of the command: the epoch and the flags
\* of the command and the ranges of the host.
PushedMeta == [epoch |-> smCmd.epoch, force |-> smCmd.force, local |-> smHost.local]

\* client.execute has handed the command to the proxy; no reply yet.
Delivered == [kind |-> "Sent", resp |-> ""]

\* The command reaches the proxy, whose handler calls set_meta with it.
push_deliver ==
    /\ smPc = "execute"
    /\ smExec = NoExec
    /\ smExec' = Delivered
    /\ set_meta_call(1, 2, PushedMeta)
    /\ UNCHANGED <<smPc, smHost, smCmd, smRet>>

\* The proxy answers OK when set_meta returned Ok(()) and an error reply
\* when it returned Err(DBError::OldEpoch).
push_reply ==
    /\ smExec = Delivered
    /\ setPc[1][2] = "idle"
    /\ send_meta_execute([kind |-> "Ok",
                          resp |-> IF setRet[1][2] = "Ok" THEN "Simple" ELSE "Error"])
    /\ UNCHANGED metaVars

\* The connection to the proxy fails before a reply is there.
push_fail ==
    /\ send_meta_execute([kind |-> "Err", resp |-> "RedisClientError"])
    /\ UNCHANGED metaVars

\* ------------------------------------------------------------- slot map

\* SlotRange inputs: ranges of up to MaxRangeLen slots at both ends of the
\* slot space, some of them reaching past SLOT_NUM.
RangeInputs ==
    {[start |-> st, end |-> st + len] :
        st \in {0, 1, SLOT_NUM - 2, SLOT_NUM - 1}, len \in 0..MaxRangeLen}

\* slot_map: HashMap<String, Vec<SlotRange>>, as the sequence of its entries
\* in the order the iteration visits them.
RangeMapInputs ==
    {<<[addr |-> "B1", ranges |-> <<r>>]>> : r \in RangeInputs}
      \cup {<<[addr |-> "B1", ranges |-> <<r, q>>]>> : r \in RangeInputs, q \in RangeInputs}
      \cup {<<[addr |-> a[1], ranges |-> <<r>>], [addr |-> a[2], ranges |-> <<q>>]>> :
                a \in {<<"B1", "B2">>, <<"B2", "B1">>},
                r \in RangeInputs, q \in RangeInputs}

\* SlotMapData: slot_arr holds SLOT_NUM entries, all None but the ones
\* written (set maps a written slot to its index into addrs, from 0).
EmptySlotData == [len |-> SLOT_NUM, set |-> EmptyMap, addrs |-> <<>>]

\* slot_arr.get_mut(s).map(|opt| *opt = Some(addrs.len() - 1)): a slot
\* outside the array is passed over.
RECURSIVE WriteSlots(_, _, _)
WriteSlots(data, slots, idx) ==
    IF slots = <<>> THEN data
    ELSE LET sl == Head(slots)
             next == IF sl < data.len
                     THEN [data EXCEPT !.set =
                              [x \in DOMAIN data.set \cup {sl} |->
                                  IF x = sl THEN idx ELSE data.set[x]]]
                     ELSE data
         IN WriteSlots(next, Tail(slots), idx)

\* SlotMapData::new: every address is pushed and its slots are written.
RECURSIVE SlotMapData_fill(_, _)
SlotMapData_fill(data, slot_map) ==
    IF slot_map = <<>> THEN data
    ELSE LET pushed == [data EXCEPT !.addrs = Append(@, Head(slot_map).addr)]
         IN SlotMapData_fill(
                WriteSlots(pushed, Head(slot_map).slots, Len(pushed.addrs) - 1),
                Tail(slot_map))

SlotMapData_new(slot_map) == SlotMapData_fill(EmptySlotData, slot_map)

\* A lookup that takes the slot modulo the size of the array.
SlotMapData_get_wrapped(data, slot) ==
    IF (slot % data.len) \in DOMAIN data.set
    THEN data.addrs[data.set[slot % data.len] + 1]
    ELSE ""

\* SlotMapData::get: None ("") for a slot outside the array or not written.
SlotMapData_get(data, slot) ==
    IF slot < data.len /\ slot \in DOMAIN data.set
    THEN data.addrs[data.set[slot] + 1]
    ELSE ""

SlotInit ==
    /\ frPc = "idle"
    /\ frInput = <<>>
    /\ frI = 0
    /\ frJ = 0
    /\ frSlot = 0
    /\ frSlots = <<>>
    /\ frMap = <<>>
    /\ frSpin = 0
    /\ slData = EmptySlotData

\* SlotMap::from_ranges is called: the first range of the first address.
from_ranges_call(slot_map) ==
    /\ frPc = "idle"
    /\ frPc' = "loop"
    /\ frInput' = slot_map
    /\ frI' = 1
    /\ frJ' = 1
    /\ frSlot' = slot_map[1].ranges[1].start
    /\ frSlots' = <<>>
    /\ frMap' = <<>>
    /\ frSpin' = 0
    /\ UNCHANGED slData

CurrentRange == frInput[frI].ranges[frJ]

\* while slot < range.end, slot < SLOT_NUM: slots.push(slot); slot += 1.
from_ranges_push ==
    /\ frPc = "loop"
    /\ frSlot < CurrentRange.end
    /\ ~(frSlot >= SLOT_NUM)
    /\ frSlots' = Append(frSlots, frSlot)
    /\ frSlot' = frSlot + 1
    /\ UNCHANGED <<frPc, frInput, frI, frJ, frMap, frSpin, slData>>

\* while slot < range.end, slot >= SLOT_NUM: continue; slot is as it was.
from_ranges_continue ==
    /\ frPc = "loop"
    /\ frSlot < CurrentRange.end
    /\ frSlot >= SLOT_NUM
    /\ frSpin' = 1 - frSpin
    /\ UNCHANGED <<frPc, frInput, frI, frJ, frSlot, frSlots, frMap, slData>>

\* The while loop is over: the next range of the address; or
\* map.insert(addr, slots) and the next address; or Self::new(map).
from_ranges_next ==
    /\ frPc = "loop"
    /\ ~(frSlot < CurrentRange.end)
    /\ IF frJ < Len(frInput[frI].ranges)
       THEN /\ frJ' = frJ + 1
            /\ frSlot' = frInput[frI].ranges[frJ + 1].start
            /\ UNCHANGED <<frPc, frI, frSlots, frMap, slData>>
       ELSE LET map == Append(frMap, [addr |-> frInput[frI].addr, slots |-> frSlots])
            IN /\ frMap' = map
               /\ frSlots' = <<>>
               /\ IF frI < Len(frInput)
                  THEN /\ frI' = frI + 1
                       /\ frJ' = 1
                       /\ frSlot' = frInput[frI + 1].ranges[1].start
                       /\ UNCHANGED <<frPc, slData>>
                  ELSE /\ frPc' = "done"
                       /\ slData' = SlotMapData_new(map)
                       /\ UNCHANGED <<frI, frJ, frSlot>>
    /\ UNCHANGED <<frInput, frSpin>>

\* ------------------------------------------------------------ key slots

\* Bytes: '{' is 123, '}' is 125, 'a' is 97, 'b' 98, 'f' 102, 'o' 111,
\* 'r' 114, 'z' 122.
Key_bar == <<98, 97, 114>>

Key_foo_bar_baz == <<102, 111, 111, 123, 98, 97, 114, 125, 98, 97, 122>>

Key_empty_tag_foo == <<123, 125, 102, 111, 111>>

RECURSIVE SeqsUpTo(_, _)
SeqsUpTo(alphabet, n) ==
    IF n = 0 THEN {<<>>}
    ELSE LET shorter == SeqsUpTo(alphabet, n - 1)
         IN shorter \cup {Append(q, c) : q \in shorter, c \in alphabet}

KeyInputs ==
    {Key_bar, Key_foo_bar_baz, Key_empty_tag_foo}
      \cup SeqsUpTo({123, 125, 97, 98, 114}, MaxKeyLen)

\* Bitwise exclusive or of two n-bit numbers.
RECURSIVE Xor(_, _, _)
Xor(a, b, n) ==
    IF n = 0 THEN 0
    ELSE ((a + b) % 2) + 2 * Xor(a \div 2, b \div 2, n - 1)

\* CRC-16/XMODEM: polynomial 0x1021, register 16 bits wide starting at 0,
\* most significant bit first.
RECURSIVE Crc16Shift(_, _)
Crc16Shift(crc, n) ==
    IF n = 0 THEN crc
    ELSE IF crc >= 32768
         THEN Crc16Shift(Xor((crc * 2) % 65536, 4129, 16), n - 1)
         ELSE Crc16Shift(crc * 2, n - 1)

\* One byte goes into the top of the register, which is shifted 8 times.
Crc16Byte(crc, byte) == Crc16Shift(Xor(crc, byte * 256, 16), 8)

RECURSIVE Crc16(_)
Crc16(bytes) ==
    IF bytes = <<>> THEN 0
    ELSE Crc16Byte(Crc16(SubSeq(bytes, 1, Len(bytes) - 1)), bytes[Len(bytes)])

\* State::<XMODEM>::calculate(key) as usize % SLOT_NUM
get_slot(key) == Crc16(key) % SLOT_NUM

KeyInit ==
    /\ gsPc = "idle"
    /\ gsKey = <<>>
    /\ gsSlot = 0 - 1

\* SlotMap::get_slot is asked for the slot of a key.
get_slot_call(key) ==
    /\ gsPc = "idle"
    /\ gsPc' = "called"
    /\ gsKey' = key
    /\ gsSlot' = 0 - 1

get_slot_return ==
    /\ gsPc = "called"
    /\ gsPc' = "idle"
    /\ gsSlot' = get_slot(gsKey)
    /\ UNCHANGED gsKey

\* --------------------------------------------------- decoder: integers

\* Bytes: '-' is 45, '0' to '9' are 48 to 57, 'a' is 97, CR is 13, LF 10.
\* An i64 is held as its sign and the decimal digits of its magnitude
\* without leading zeros (no digit for 0), so that its full width is there.
I64(neg, mag) == [neg |-> neg, mag |-> mag]

I64_MAX_MAG == <<9, 2, 2, 3, 3, 7, 2, 0, 3, 6, 8, 5, 4, 7, 7, 5, 8, 0, 7>>

I64_MIN_MAG == <<9, 2, 2, 3, 3, 7, 2, 0, 3, 6, 8, 5, 4, 7, 7, 5, 8, 0, 8>>

\* 2^64, by which a wrapped result differs from the true one.
TWO_64 == <<1, 8, 4, 4, 6, 7, 4, 4, 0, 7, 3, 7, 0, 9, 5, 5, 1, 6, 1, 6>>

RECURSIVE Norm(_)
Norm(ds) == IF ds # <<>> /\ Head(ds) = 0 THEN Norm(Tail(ds)) ELSE ds

\* a < b, for magnitudes without leading zeros.
RECURSIVE MagLess(_, _)
MagLess(a, b) ==
    IF Len(a) # Len(b) THEN Len(a) < Len(b)
    ELSE IF a = <<>> THEN FALSE
    ELSE IF Head(a) # Head(b) THEN Head(a) < Head(b)
    ELSE MagLess(Tail(a), Tail(b))

\* a - b for digit strings of one length with a >= b; borrow is 0 or 1.
RECURSIVE SubDigits(_, _, _)
SubDigits(a, b, borrow) ==
    IF a = <<>> THEN <<>>
    ELSE LET n == Len(a)
             d == a[n] - b[n] - borrow
         IN Append(SubDigits(SubSeq(a, 1, n - 1), SubSeq(b, 1, n - 1),
                             IF d < 0 THEN 1 ELSE 0),
                   IF d < 0 THEN d + 10 ELSE d)

RECURSIVE Zeros(_)
Zeros(n) == IF n = 0 THEN <<>> ELSE <<0>> \o Zeros(n - 1)

\* a - b for magnitudes, a >= b.
MagSub(a, b) == Norm(SubDigits(a, Zeros(Len(a) - Len(b)) \o b, 0))

IntOk(v) == [kind |-> "Ok", val |-> v]

IntErr(kind) == [kind |-> kind, val |-> I64(FALSE, <<>>)]

\* s * 10 + (i - ZERO) in i64, s >= 0: when the true result is above
\* i64::MAX, a build with overflow checks panics and a build without them
\* keeps the low 64 bits, which is the true result less 2^64.
MulAdd(s, digit, checks) ==
    LET mag == Norm(Append(s.mag, digit))
    IN IF ~MagLess(I64_MAX_MAG, mag) THEN IntOk(I64(FALSE, mag))
       ELSE IF checks THEN IntErr("Panic")
       ELSE IntOk(I64(TRUE, MagSub(TWO_64, mag)))

\* i * f for f = -1: the negation of i64::MIN overflows.
Negate(i, checks) ==
    IF i.neg /\ i.mag = I64_MIN_MAG
    THEN IF checks THEN IntErr("Panic") ELSE IntOk(i)
    ELSE IntOk(I64(~i.neg /\ i.mag # <<>>, i.mag))

\* it.fold(Ok(0), ..): a digit goes into the sum, any other byte makes the
\* result Err(InvalidProtocol).
RECURSIVE FoldDigits(_, _, _)
FoldDigits(sum, bytes, checks) ==
    IF bytes = <<>> \/ sum.kind = "Panic" THEN sum
    ELSE LET i == Head(bytes)
             next == IF i \in 48..57
                     THEN IF sum.kind = "Ok" THEN MulAdd(sum.val, i - 48, checks)
                          ELSE sum
                     ELSE IntErr("InvalidProtocol")
         IN FoldDigits(next, Tail(bytes), checks)

\* bytes_to_int: a leading '-' gives the factor -1; the rest is folded and
\* the sum is multiplied by the factor.
bytes_to_int(bytes, checks) ==
    LET minus == bytes # <<>> /\ Head(bytes) = 45
        sum == FoldDigits(IntOk(I64(FALSE, <<>>)),
                          IF minus THEN Tail(bytes) ELSE bytes, checks)
    IN IF sum.kind = "Ok" /\ minus THEN Negate(sum.val, checks) ELSE sum

\* Byte strings handed to bytes_to_int: every string of up to MaxIntLen of
\* the bytes '-', '0', '1', '9', 'a', and the numbers at the ends of i64.
Digits(mag) == [n \in 1..Len(mag) |-> mag[n] + 48]

IntInputs ==
    SeqsUpTo({45, 48, 49, 57, 97}, MaxIntLen)
      \cup {Digits(I64_MAX_MAG), <<45>> \o Digits(I64_MAX_MAG),
            <<45>> \o Digits(I64_MIN_MAG), Digits(I64_MIN_MAG)}

\* ------------------------------------------------------ decoder: lines

CR == 13

LF == 10

CRLF == <<CR, LF>>

\* read_until(reader, LF, vec![]): the bytes up to and with the first LF,
\* or all the bytes left when there is no LF; the reader keeps the rest.
read_until(reader) ==
    LET at == {n \in 1..Len(reader) : reader[n] = LF}
        end == IF at = {} THEN Len(reader)
               ELSE CHOOSE n \in at : \A k \in at : n <= k
    IN [line |-> SubSeq(reader, 1, end),
        reader |-> SubSeq(reader, end + 1, Len(reader))]

\* read_exact(reader, vec![0; n]): n bytes, or an Io error when the reader
\* ends before them.
read_exact(reader, n) ==
    IF Len(reader) < n THEN [kind |-> "Io", reader |-> <<>>, line |-> <<>>]
    ELSE [kind |-> "Ok", line |-> SubSeq(reader, 1, n),
          reader |-> SubSeq(reader, n + 1, Len(reader))]

Decoded(val, reader) == [kind |-> "Ok", val |-> val, reader |-> reader]

DecodeErr(kind) == [kind |-> kind]

\* decode_line: a line of at most two bytes is InvalidProtocol; any other
\* line is returned less its last two bytes.
decode_line(reader) ==
    LET r == read_until(reader)
        len == Len(r.line)
    IN IF len <= 2 THEN DecodeErr("InvalidProtocol")
       ELSE Decoded(SubSeq(r.line, 1, len - 2), r.reader)

\* decode_len: the line's bytes go through bytes_to_int.
decode_len(reader, checks) ==
    LET l == decode_line(reader)
    IN IF l.kind # "Ok" THEN l
       ELSE LET len_res == bytes_to_int(l.val, checks)
            IN IF len_res.kind = "Ok" THEN Decoded(len_res.val, l.reader)
               ELSE DecodeErr(len_res.kind)

\* `len as usize` for the lengths that fit the model's integers.
RECURSIVE AsUsize(_)
AsUsize(mag) ==
    IF mag = <<>> THEN 0
    ELSE AsUsize(SubSeq(mag, 1, Len(mag) - 1)) * 10 + mag[Len(mag)]

Nil == [type |-> "Nil"]

Str(s) == [type |-> "Str", s |-> s]

\* decode_bulk_str: a negative length reads nothing and gives Nil; any
\* other length reads len + 2 bytes and keeps the first len.
decode_bulk_str(reader, checks) ==
    LET l == decode_len(reader, checks)
    IN IF l.kind # "Ok" THEN l
       ELSE LET len_lt_0 == l.val.neg
                read_len == IF len_lt_0 THEN 0 ELSE AsUsize(l.val.mag) + 2
                r == read_exact(l.reader, read_len)
            IN IF r.kind # "Ok" THEN DecodeErr(r.kind)
               ELSE IF len_lt_0 THEN Decoded(Nil, r.reader)
               ELSE Decoded(Str(SubSeq(r.line, 1, AsUsize(l.val.mag))), r.reader)

\* Readers handed to decode_line: a content of up to MaxLineLen of the
\* bytes 'a', '0', CR, then CR LF and what follows, or the content alone.
LineInputs ==
    LET contents == SeqsUpTo({97, 48, CR}, MaxLineLen)
    IN {c \o CRLF \o t : c \in contents, t \in {<<>>, <<97>>, <<97>> \o CRLF}}
         \cup contents

\* Readers handed to decode_bulk_str: a length line and up to MaxBodyLen
\* bytes after it.
BulkInputs ==
    LET lens == {<<45, 49>>, <<45, 50>>, <<48>>, <<49>>, <<50>>, <<97>>}
    IN {l \o CRLF \o b : l \in lens, b \in SeqsUpTo({97, CR, LF}, MaxBodyLen)}

NoRes == [kind |-> "None"]

CodecInit ==
    /\ dcPc = "idle"
    /\ dcFn = ""
    /\ dcInput = <<>>
    /\ dcChecks = FALSE
    /\ dcRes = NoRes

\* A decoder function is called, in a build with or without overflow checks.
decoder_call(fn, input, checks) ==
    /\ dcPc = "idle"
    /\ dcPc' = "called"
    /\ dcFn' = fn
    /\ dcInput' = input
    /\ dcChecks' = checks
    /\ dcRes' = NoRes

bytes_to_int_return ==
    /\ dcPc = "called"
    /\ dcFn = "bytes_to_int"
    /\ dcPc' = "idle"
    /\ dcRes' = bytes_to_int(dcInput, dcChecks)
    /\ UNCHANGED <<dcFn, dcInput, dcChecks>>

decode_line_return ==
    /\ dcPc = "called"
    /\ dcFn = "decode_line"
    /\ dcPc' = "idle"
    /\ dcRes' = decode_line(dcInput)
    /\ UNCHANGED <<dcFn, dcInput, dcChecks>>

decode_bulk_str_return ==
    /\ dcPc = "called"
    /\ dcFn = "decode_bulk_str"
    /\ dcPc' = "idle"
    /\ dcRes' = decode_bulk_str(dcInput, dcChecks)
    /\ UNCHANGED <<dcFn, dcInput, dcChecks>>

\* ------------------------------------------------------- specifications

\* A proxy after construction, with one client connection just accepted.
Init == MetaInit /\ SessInit /\ CoordInit /\ SlotInit /\ KeyInit /\ CodecInit


\* One proxy, two threads calling set_meta concurrently.
SetNext ==
    \/ \E t \in SetThreads, m \in DBMetas : set_meta_call(1, t, m)
    \/ \E t \in SetThreads : set_meta_lock(1, t)
    \/ \E t \in SetThreads : set_meta_store(1, t)
    \/ \E t \in SetThreads : set_meta_epoch(1, t)
    \/ \E t \in SetThreads : set_meta_run(1, t)

SetSpec == Init /\ [][SetNext /\ UNCHANGED <<sessVars, coordVars, slotVars, keyVars, codecVars>>]_vars

\* One proxy: set_meta, TMPSWITCH and commands running concurrently.
MetaNext ==
    \/ \E m \in DBMetas : set_meta_call(1, 1, m)
    \/ set_meta_lock(1, 1)
    \/ set_meta_store(1, 1)
    \/ set_meta_epoch(1, 1)
    \/ set_meta_run(1, 1)
    \/ \E m \in SwitchMetas, sub \in MgrSubCmd :
           handle_switch_call(1, [meta |-> m, sub |-> sub])
    \/ handle_switch_check(1)
    \/ handle_switch_apply(1)
    \/ \E slot \in TestSlots : send_cmd_ctx_lease(1, slot)
    \/ send_cmd_ctx_migration(1)
    \/ send_cmd_ctx_db(1)

MetaSpec == Init /\ [][MetaNext /\ UNCHANGED <<sessVars, coordVars, slotVars, keyVars, codecVars>>]_vars

\* One proxy routing commands while its metadata is updated; the send of
\* the migration map may fail.
RouteNext ==
    \/ \E m \in DBMetas : set_meta_call(1, 1, m)
    \/ set_meta_lock(1, 1)
    \/ set_meta_store(1, 1)
    \/ set_meta_epoch(1, 1)
    \/ set_meta_run(1, 1)
    \/ \E slot \in TestSlots : send_cmd_ctx_lease(1, slot)
    \/ send_cmd_ctx_migration(1)
    \/ send_cmd_ctx_migration_error(1)
    \/ send_cmd_ctx_db(1)

RouteSpec == Init /\ [][RouteNext /\ UNCHANGED <<sessVars, coordVars, slotVars, keyVars, codecVars>>]_vars

\* The coordinator pushing host metadata to one proxy, again and again.
PushNext ==
    \/ \E host \in Hosts : send_meta_call(host, "SETDB") /\ UNCHANGED metaVars
    \/ push_deliver
    \/ set_meta_lock(1, 2) /\ UNCHANGED coordVars
    \/ set_meta_store(1, 2) /\ UNCHANGED coordVars
    \/ set_meta_epoch(1, 2) /\ UNCHANGED coordVars
    \/ set_meta_run(1, 2) /\ UNCHANGED coordVars
    \/ push_reply
    \/ push_fail
    \/ send_meta_return /\ UNCHANGED metaVars

PushSpec == Init /\ [][PushNext /\ UNCHANGED <<sessVars, slotVars, keyVars, codecVars>>]_vars

\* Two proxies, the source side and the destination side of one migration:
\* proxy 1 is told that the range migrates to B2, proxy 2 that it imports it;
\* each receives the Commit switch of the task on its own.
PairMeta(p) ==
    [epoch |-> 1, force |-> FALSE,
     local |-> IF p = 1 THEN LocalMig(1) ELSE LocalImp(1)]

PairSwitch == [meta |-> TaskMeta(0, HalfSlot, MgrTag("Importing", 1)), sub |-> "Commit"]

PairNext ==
    \/ \E p \in Proxies : set_meta_call(p, 1, PairMeta(p))
    \/ \E p \in Proxies : set_meta_lock(p, 1)
    \/ \E p \in Proxies : set_meta_store(p, 1)
    \/ \E p \in Proxies : set_meta_epoch(p, 1)
    \/ \E p \in Proxies : set_meta_run(p, 1)
    \/ \E p \in Proxies : handle_switch_call(p, PairSwitch)
    \/ \E p \in Proxies : handle_switch_check(p)
    \/ \E p \in Proxies : handle_switch_apply(p)

PairSpec == Init /\ [][PairNext /\ UNCHANGED <<sessVars, coordVars, slotVars, keyVars, codecVars>>]_vars

\* One client connection, with the owners of the commands answering them in
\* any order.
SessionNext ==
    \/ \E id \in 1..MaxReq : handle_read_decode(id)
    \/ handle_read_send
    \/ \E id \in 1..MaxReq : handle_read_invalid(id)
    \/ handle_read_send_invalid
    \/ handle_read_io_error
    \/ handle_write_recv
    \/ handle_write_reply
    \/ handle_write_flush
    \/ handle_write_io_error
    \/ \E id \in 1..MaxReq, result \in BackendResults : set_result(id, result)
    \/ \E id \in 1..MaxReq : drop_cmd_ctx(id)

SessionSpec == Init /\ [][SessionNext /\ UNCHANGED <<metaVars, coordVars, slotVars, keyVars, codecVars>>]_vars

\* The coordinator pushing host metadata, SETDB or SETPEER, to a proxy.
CoordNext ==
    \/ \E host \in Hosts, sub \in {"SETDB", "SETPEER"} : send_meta_call(host, sub)
    \/ \E outcome \in ExecOutcomes : send_meta_execute(outcome)
    \/ send_meta_return

CoordSpec == Init /\ [][CoordNext /\ UNCHANGED <<metaVars, sessVars, slotVars, keyVars, codecVars>>]_vars

\* A slot map is built from ranges.
SlotNext ==
    \/ \E slot_map \in RangeMapInputs : from_ranges_call(slot_map)
    \/ from_ranges_push
    \/ from_ranges_continue
    \/ from_ranges_next

SlotStep == SlotNext /\ UNCHANGED <<metaVars, sessVars, coordVars, keyVars, codecVars>>

SlotSpec == Init /\ [][SlotStep]_vars

\* from_ranges is straight-line code: once called it keeps taking steps.
SlotFairSpec ==
    SlotSpec /\ WF_vars((from_ranges_push \/ from_ranges_continue \/ from_ranges_next)
                            /\ UNCHANGED <<metaVars, sessVars, coordVars, keyVars, codecVars>>)

\* The slots of keys are asked for.
KeyNext ==
    \/ \E key \in KeyInputs : get_slot_call(key)
    \/ get_slot_return

KeySpec ==
    Init /\ [][KeyNext /\ UNCHANGED <<metaVars, sessVars, coordVars, slotVars, codecVars>>]_vars

\* The decoder's functions are applied to byte strings.
CodecNext ==
    \/ \E input \in IntInputs, checks \in BOOLEAN :
          decoder_call("bytes_to_int", input, checks)
    \/ \E input \in LineInputs : decoder_call("decode_line", input, FALSE)
    \/ \E input \in BulkInputs, checks \in BOOLEAN :
          decoder_call("decode_bulk_str", input, checks)
    \/ bytes_to_int_return
    \/ decode_line_return
    \/ decode_bulk_str_return

CodecSpec ==
    Init /\ [][CodecNext /\ UNCHANGED <<metaVars, sessVars, coordVars, slotVars, keyVars>>]_vars

\* ------------------------------------------------------- metadata claims

\* C1: set_meta returns OldEpoch exactly when the epoch of the update is at
\* or below the published epoch and FORCE is not set; and whenever a new
\* snapshot is installed, the epoch of its update is above the epoch of the
\* update before it, unless the update carries FORCE.
C1_EpochMonotonic ==
    [][\A p \in Proxies :
          /\ \A t \in SetThreads :
                (setPc[p][t] = "lock" /\ setPc'[p][t] # "lock") =>
                   ((setRet'[p][t] = "OldEpoch") <=>
                      (setArg[p][t].epoch <= epoch[p] /\ ~setArg[p][t].force))
          /\ (meta_map'[p].id # meta_map[p].id) =>
                \/ meta_map'[p].epoch > meta_map[p].epoch
                \/ \E t \in SetThreads :
                      setPc[p][t] = "store" /\ setArg[p][t].force
      ]_vars

\* Two updates were accepted, the second by one thread, and a call of the
\* other thread was rejected.
C1_Witness ==
    \E t, u \in SetThreads :
        /\ t # u
        /\ setRet[1][t] = "OldEpoch"
        /\ setRet[1][u] = "Ok"
        /\ meta_map[1].id = 2

\* C2: the step in which set_meta returns OldEpoch changes neither the
\* installed snapshot nor the published epoch nor the task objects, and it
\* launches no migration and no deleting task.
C2_RejectedUnchanged ==
    [][\A p \in Proxies : \A t \in SetThreads :
          (setPc[p][t] = "lock" /\ setRet'[p][t] = "OldEpoch") =>
             /\ meta_map'[p] = meta_map[p]
             /\ epoch'[p] = epoch[p]
             /\ tasks'[p] = tasks[p]
             /\ launched'[p] = launched[p]
             /\ launchedDel'[p] = launchedDel[p]
             /\ lock'[p] = lock[p]
      ]_vars

\* An update with an epoch below the published one was rejected while a
\* snapshot with a migration task is installed.
C2_Witness ==
    \E t \in SetThreads :
        /\ setRet[1][t] = "OldEpoch"
        /\ epoch[1] = 2
        /\ DOMAIN meta_map[1].migration_map # {}

\* C8: a command whose slot is in a migrating range of the leased snapshot
\* is forwarded to the source when the Commit switch of the range has not
\* been applied and to the destination when it has; a command whose slot is
\* in no migration task goes on to the database map of the same snapshot and
\* is forwarded to the backend whose range holds the slot; the side a task
\* routes to changes only in the step that applies a Commit switch.
C8_RoutingByCommit ==
    [][\A p \in Proxies :
          /\ (sendPc[p] = "migration" /\ sendPc'[p] # "migration") =>
                LET map == sendMap[p].migration_map
                    S == SlotTask(map, sendSlot[p])
                IN IF S = {}
                   THEN sendPc'[p] = "db" /\ route'[p] = route[p]
                   ELSE \E k \in S :
                          /\ route'[p].via = "migration_map"
                          /\ route'[p].to =
                               IF tasks[p][map[k]].commit_applied
                               THEN k.tag.dst ELSE k.tag.src
          /\ (sendPc[p] = "db" /\ sendPc'[p] # "db") =>
                /\ route'[p].via = "db_map"
                /\ \/ \E r \in sendMap[p].db_map :
                         /\ r.start <= sendSlot[p] /\ sendSlot[p] < r.end
                         /\ route'[p].to = r.addr
                   \/ /\ route'[p].to = ""
                      /\ \A r \in sendMap[p].db_map :
                            ~(r.start <= sendSlot[p] /\ sendSlot[p] < r.end)
          /\ \A i \in DOMAIN tasks[p] :
                (tasks'[p][i].state # "Dropped"
                   /\ Finished(tasks'[p][i]) # Finished(tasks[p][i])) =>
                      (swPc[p] = "apply" /\ swArg[p].sub = "Commit")
      ]_vars

\* A command of the migrating slot was forwarded to the destination.
C8_Witness ==
    /\ route[1].via = "migration_map"
    /\ route[1].to = "B2"
    /\ \E k \in DOMAIN meta_map[1].migration_map : k.tag.kind = "Migrating"

\* C9: a task that get_finished_migration_tasks reports and that the next
\* snapshot still holds is reported in the next state too.
C9_CommitMonotonic ==
    [][\A p \in Proxies :
          \A k \in get_finished_tasks(meta_map[p].migration_map, tasks[p]) :
             k \in DOMAIN meta_map'[p].migration_map =>
                k \in get_finished_tasks(meta_map'[p].migration_map, tasks'[p])
      ]_vars

\* The second snapshot holds the task object the first one created, and the
\* task is reported as finished.
C9_Witness ==
    /\ meta_map[1].id = 2
    /\ \E k \in get_finished_tasks(meta_map[1].migration_map, tasks[1]) :
          meta_map[1].migration_map[k] = 1

\* The backend each proxy that holds a task for the slot forwards it to.
CommittingSides(slot) ==
    {MigrationMap_send(meta_map[p].migration_map, tasks[p], slot) :
        p \in {q \in Proxies : SlotTask(meta_map[q].migration_map, slot) # {}}}

\* C10: at every instant the source-side proxy and the destination-side
\* proxy forward the commands of a migrating slot to one and the same side.
C10_OneCommittingSide ==
    \A slot \in TestSlots : Cardinality(CommittingSides(slot)) <= 1

\* -------------------------------------------------------- session claims

\* C3: the k-th reply written towards the client is the reply of the k-th
\* decoded request, whatever the order in which the requests were answered.
C3_RepliesInRequestOrder ==
    \A k \in 1..Len(wire) :
        /\ wire[k].ch = k
        /\ chan[k].writes # <<>>
        /\ wire[k].out = ReplyBytes(Head(chan[k].writes))

\* The first reply is written, the writer waits for the second request's
\* result, and the third request, queued behind it, is answered already.
C3_Witness ==
    /\ Len(wire) = 1
    /\ wire[1].ch = 1
    /\ wr = "wait"
    /\ wrCur = 2
    /\ cmd[2] = "CmdCtx"
    /\ cmd[3] = "Ok"
    /\ fifo = <<3>>

\* C4: a CmdCtx that has been consumed by set_result, or dropped without a
\* result, has delivered exactly one result on its reply channel: the result
\* given to set_result, or the Dropped error.
C4_ExactlyOneResult ==
    \A id \in 1..MaxReq :
        /\ Len(chan[id].writes) <= 1
        /\ cmd[id] \in BackendResults => chan[id].writes = <<cmd[id]>>
        /\ cmd[id] = "dropped" => chan[id].writes = <<"Dropped">>

\* One CmdCtx was answered through set_result and another was dropped.
C4_Witness ==
    \E a, b \in 1..MaxReq :
        /\ cmd[a] = "dropped" /\ chan[a].writes = <<"Dropped">>
        /\ cmd[b] = "InnerError" /\ chan[b].writes = <<"InnerError">>

\* C5: an error result is written as one "-Err cmd error" line at the
\* position of its request and nowhere else; the writer does not end with
\* the command's error, and the reader is not cancelled because of it.
C5_ErrorReplyInPlace ==
    /\ wr # "Err(CmdErr)"
    /\ rd = "cancelled" => wr = "Err(Io)"
    /\ \A k \in 1..Len(wire) :
        /\ wire[k].ch = k
        /\ (wire[k].out = "-Err cmd error") <=> (cmd[k] \in {"InnerError", "dropped"})

\* An error line has been written and the reply of the next request has
\* been written after it.
C5_Witness ==
    \E k \in 1..(Len(wire) - 1) :
        /\ cmd[k] = "InnerError"
        /\ wire[k].out = "-Err cmd error"
        /\ wire[k + 1].out = "reply"
        /\ Running(wr)

\* C6: once the reader has ended on an invalid frame, the "-Err invalid
\* protocol" reply is on the client socket.
C6_InvalidProtocolReplyWritten ==
    rd = "Err(InvalidProtocol)" =>
        \E k \in 1..flushed : wire[k].out = "-Err invalid protocol"

C11_NotReadyGate ==
    [][\A p \in Proxies :
          /\ (swPc[p] = "check" /\ swPc'[p] # "check"
                /\ swArg[p].meta.tag.kind # "None") =>
                IF swArg[p].meta.tag.epoch > epoch[p]
                THEN /\ swRet'[p] = "NotReady"
                     /\ swPc'[p] = "idle"
                     /\ tasks'[p] = tasks[p]
                     /\ meta_map'[p] = meta_map[p]
                ELSE /\ swPc'[p] = "apply"
                     /\ swRet'[p] = "none"
          /\ (swPc[p] # "apply" /\ setPc[p][1] # "store" /\ sendPc[p] = sendPc'[p]) =>
                tasks'[p] = tasks[p]
      ]_vars

\* A switch for a task of epoch 2 was turned away with NotReady by a proxy
\* whose epoch is 1 and whose migration map holds a task.
C11_Witness ==
    /\ swRet[1] = "NotReady"
    /\ epoch[1] = 1
    /\ DOMAIN meta_map[1].migration_map # {}

\* C12: in every state, for every task meta and sub command, handle_switch
\* on the Migrating form of the meta and on its Importing form give the same
\* result and leave the same task objects.
C12_MigratingAsImporting ==
    \A p \in Proxies : \A m \in SwitchMetas : \A sub \in MgrSubCmd :
        m.tag.kind = "Migrating" =>
            handle_switch_outcome(epoch[p], meta_map[p].migration_map, tasks[p],
                                  [meta |-> m, sub |-> sub])
              = handle_switch_outcome(epoch[p], meta_map[p].migration_map, tasks[p],
                                  [meta |-> ToImporting(m), sub |-> sub])

\* A Commit switch in its Migrating form is about to be applied to a
\* snapshot that holds the task; applying it succeeds and changes the task.
C12_Witness ==
    /\ swPc[1] = "apply"
    /\ swArg[1].meta.tag.kind = "Migrating"
    /\ swArg[1].sub = "Commit"
    /\ LET o == handle_switch_outcome(epoch[1], meta_map[1].migration_map,
                                      tasks[1], swArg[1])
       IN o.ret = "Ok" /\ o.tasks # tasks[1]

\* ------------------------------------------------------ coordinator claims

\* C13: send_meta, for SETDB and for SETPEER, ends with InvalidReply exactly
\* when the proxy's reply is of type Error, with the Redis error when the
\* transport failed, and with success for every other reply.
C13_InvalidReplyIffError ==
    (smPc = "idle" /\ smRet # "none") =>
        /\ (smRet = "InvalidReply") <=> (smExec.kind = "Ok" /\ smExec.resp = "Error")
        /\ (smRet = "Redis") <=> (smExec.kind = "Err")
        /\ (smRet = "Ok") <=> (smExec.kind = "Ok" /\ smExec.resp # "Error")

\* A SETPEER push that was answered with a bulk string has ended in success.
C13_Witness ==
    /\ smPc = "idle"
    /\ smCmd.sub = "SETPEER"
    /\ smExec = [kind |-> "Ok", resp |-> "Bulk"]
    /\ smRet = "Ok"

\* --------------------------------------------------------- slot map claims

\* The slots looked up: both ends of the slot space and past its end.
QuerySlots == 0..(MaxRangeLen + 1) \cup (SLOT_NUM - MaxRangeLen - 1)..(SLOT_NUM + MaxRangeLen)

\* The places, address and range, of an input that hold a slot.
Covering(slot_map, slot) ==
    {<<i, j>> \in (1..Len(slot_map)) \X (1..2) :
        /\ j <= Len(slot_map[i].ranges)
        /\ slot_map[i].ranges[j].start <= slot
        /\ slot < slot_map[i].ranges[j].end}

NonOverlapping(slot_map) ==
    \A slot \in QuerySlots : Cardinality(Covering(slot_map, slot)) <= 1

\* C14: in a slot map built from non-overlapping ranges, get(s) is the
\* address of the one range that holds s when s is below SLOT_NUM and is
\* covered, and None for an uncovered s and for every s >= SLOT_NUM.
C14_LookupUnique ==
    (frPc = "done" /\ NonOverlapping(frInput)) =>
        \A slot \in QuerySlots :
            SlotMapData_get(slData, slot) =
                IF slot < SLOT_NUM /\ Covering(frInput, slot) # {}
                THEN frInput[(CHOOSE c \in Covering(frInput, slot) : TRUE)[1]].addr
                ELSE ""

\* A map of two backends, one owning slot 0 and the other slot 16383, is
\* built; both resolve, and slot 16384 resolves to nothing.
C14_Witness ==
    /\ frPc = "done"
    /\ NonOverlapping(frInput)
    /\ SlotMapData_get(slData, 0) = "B2"
    /\ SlotMapData_get(slData, SLOT_NUM - 1) = "B1"
    /\ SlotMapData_get(slData, SLOT_NUM) = ""

\* C15: from_ranges, once called, comes to its end for every input, and the
\* map it built gives each address the slots i, start <= i < min(end,
\* SLOT_NUM), of its ranges and no others.
C15_FromRangesTerminates ==
    /\ (frPc = "loop") ~> (frPc = "done")
    /\ [](frPc = "done" =>
            \A i \in 1..Len(frInput) :
                {frMap[i].slots[n] : n \in 1..Len(frMap[i].slots)} =
                    UNION {{x \in QuerySlots :
                                /\ frInput[i].ranges[j].start <= x
                                /\ x < frInput[i].ranges[j].end
                                /\ x < SLOT_NUM} :
                            j \in 1..Len(frInput[i].ranges)})

\* The positions of a byte in a key.
Positions(key, byte) == {i \in 1..Len(key) : key[i] = byte}

Min(S) == CHOOSE x \in S : \A y \in S : x <= y

\* The part of a key that is to be hashed by the hashtag rule: the content
\* between the first '{' and the first '}' after it when there is one and
\* it is not empty, else the whole key.
HashedPart(key) ==
    IF Positions(key, 123) = {} THEN key
    ELSE LET open == Min(Positions(key, 123))
             closes == {i \in Positions(key, 125) : i > open}
         IN IF closes = {} \/ Min(closes) = open + 1 THEN key
            ELSE SubSeq(key, open + 1, Min(closes) - 1)

\* C19: the slot get_slot returns for a key is the hash of the key's
\* hashtag content when it has a non-empty one, else of the whole key, and
\* lies in [0, SLOT_NUM).
C19_HashtagSlot ==
    (gsPc = "idle" /\ gsSlot >= 0) =>
        /\ gsSlot = Crc16(HashedPart(gsKey)) % SLOT_NUM
        /\ gsSlot \in 0..(SLOT_NUM - 1)

\* The CRC of "123456789" is 0x31C3, the check value of CRC-16/XMODEM.
Crc16CheckValue == Crc16(<<49, 50, 51, 52, 53, 54, 55, 56, 57>>) = 12739

\* Commands the reader has made a pair for and the writer has not taken.
NotYetTaken == Len(fifo) + (IF rdPending # 0 THEN 1 ELSE 0)

\* The reader is in tx.send and its sender is parked.
ReaderWaits == rd \in {"send", "send_invalid"} /\ SenderParked(fifo)

\* C20, as stated: the reply FIFO never holds more than its configured
\* capacity, the buffer given to mpsc::channel, of reply receivers.
C20_FifoWithinCapacity == Len(fifo) <= ChannelBuffer

\* C20, amended: the reply FIFO never holds more than the channel's buffer
\* plus the one slot of its single sender; while the reader waits in send
\* nothing is decoded or dispatched and the FIFO changes only by the writer
\* taking its head; the commands not yet taken by the writer never exceed
\* the buffer plus two.
C20_ReplyFifoBounded ==
    /\ [](Len(fifo) <= ChannelBuffer + 1 /\ NotYetTaken <= ChannelBuffer + 2)
    /\ [][ReaderWaits =>
            /\ nch' = nch
            /\ rdPending' = rdPending
            /\ fifo' = fifo \/ fifo' = Tail(fifo)]_vars

\* The FIFO holds buffer + 1 receivers and the reader waits with one more
\* command already dispatched.
C20_Witness ==
    /\ Len(fifo) = ChannelBuffer + 1
    /\ ReaderWaits
    /\ rdPending # 0
    /\ cmd[rdPending] = "CmdCtx"

\* ---------------------------------------------------------- decoder claims

\* A byte string that is an optional '-' followed by one or more digits.
IsDecimal(bytes) ==
    LET ds == IF bytes # <<>> /\ Head(bytes) = 45 THEN Tail(bytes) ELSE bytes
    IN ds # <<>> /\ \A n \in 1..Len(ds) : ds[n] \in 48..57

\* Whether a byte other than a digit comes after the optional leading '-'.
HasNonDigit(bytes) ==
    LET ds == IF bytes # <<>> /\ Head(bytes) = 45 THEN Tail(bytes) ELSE bytes
    IN \E n \in 1..Len(ds) : ds[n] \notin 48..57

\* The number a decimal byte string denotes.
DecimalValue(bytes) ==
    LET minus == Head(bytes) = 45
        ds == IF minus THEN Tail(bytes) ELSE bytes
        mag == Norm([n \in 1..Len(ds) |-> ds[n] - 48])
    IN I64(minus /\ mag # <<>>, mag)

InI64(v) ==
    IF v.neg THEN ~MagLess(I64_MIN_MAG, v.mag) ELSE ~MagLess(I64_MAX_MAG, v.mag)

\* C17: bytes_to_int returns the value of every decimal byte string whose
\* value is an i64, and fails with InvalidProtocol for every byte string
\* with a byte other than a digit after the optional leading '-'.
C17_BytesToInt ==
    (dcPc = "idle" /\ dcFn = "bytes_to_int") =>
        /\ (IsDecimal(dcInput) /\ InI64(DecimalValue(dcInput))) =>
              dcRes = IntOk(DecimalValue(dcInput))
        /\ HasNonDigit(dcInput) => dcRes.kind = "InvalidProtocol"

\* The first line of a reader when it ends in CR LF: where its LF is, or 0.
TerminatedAt(reader) ==
    LET r == read_until(reader)
        len == Len(r.line)
    IN IF len >= 2 /\ r.line[len] = LF /\ r.line[len - 1] = CR THEN len ELSE 0

\* C18: for every reader whose first line ends in CR LF, decode_line
\* returns exactly the bytes before the CR LF (the empty string when the
\* line is CR LF alone) and leaves the reader just after that line.
C18_DecodeLine ==
    (dcPc = "idle" /\ dcFn = "decode_line" /\ TerminatedAt(dcInput) > 0) =>
        LET end == TerminatedAt(dcInput)
        IN dcRes = Decoded(SubSeq(dcInput, 1, end - 2),
                           SubSeq(dcInput, end + 1, Len(dcInput)))

\* The reader after the length line of a bulk string.
BulkBody(reader) == SubSeq(reader, TerminatedAt(reader) + 1, Len(reader))

\* The length line of a bulk string, less its CR LF.
BulkLen(reader) == SubSeq(reader, 1, TerminatedAt(reader) - 2)

\* C16: decode_bulk_str gives Nil for the length -1, the empty bulk string
\* for the length 0, the next n bytes for a length n > 0 with the CR LF
\* after them consumed, and fails for every other negative length.
C16_DecodeBulkStr ==
    (dcPc = "idle" /\ dcFn = "decode_bulk_str" /\ IsDecimal(BulkLen(dcInput))) =>
        LET len == DecimalValue(BulkLen(dcInput))
            body == BulkBody(dcInput)
            n == AsUsize(len.mag)
        IN /\ (len.neg /\ len.mag = <<1>>) => dcRes = Decoded(Nil, body)
           /\ (len.neg /\ len.mag # <<1>>) => dcRes.kind \notin {"Ok", "None"}
           /\ (~len.neg /\ Len(body) >= n + 2 /\ SubSeq(body, n + 1, n + 2) = CRLF) =>
                 dcRes = Decoded(Str(SubSeq(body, 1, n)),
                                 SubSeq(body, n + 3, Len(body)))

\* ------------------------------------------------- snapshot claims

\* A MetaMap whose three subfields were built from one metadata update.
Coherent(m) ==
    \/ m = EmptyMetaMap
    \/ \E local \in Locals :
          /\ m.db_map = from_db_map([local |-> local])
          /\ DOMAIN m.migration_map = LocalTaskMetas(local)
          /\ m.deleting_task_map \cap DOMAIN m.migration_map = {}

\* C21: a command is routed with the migration map and the database map of
\* the one snapshot it leased: the lease stays as it is for the whole call
\* whatever set_meta installs meanwhile, a command that reaches the database
\* map was turned away by the migration map of the leased snapshot and is
\* sent through the database map of that same snapshot, and every snapshot
\* a reader holds has its subfields from one update.
C21_OneSnapshotPerCommand ==
    /\ [](\A p \in Proxies :
            /\ Coherent(meta_map[p])
            /\ Coherent(sendMap[p])
            /\ sendPc[p] = "db" =>
                  SlotTask(sendMap[p].migration_map, sendSlot[p]) = {})
    /\ [][\A p \in Proxies :
            /\ (sendPc[p] # "idle" /\ sendPc'[p] # "idle") =>
                  sendMap'[p] = sendMap[p]
            /\ (sendPc[p] = "db" /\ sendPc'[p] = "idle") =>
                  /\ route'[p].via = "db_map"
                  /\ route'[p].to = SlotMap_get(sendMap[p].db_map, sendSlot[p])
       ]_vars

\* A command turned away by the migration map of its snapshot is about to
\* go to the database map while set_meta has installed another snapshot,
\* whose database map would send it elsewhere.
C21_Witness ==
    /\ sendPc[1] = "db"
    /\ sendMap[1].id # meta_map[1].id
    /\ SlotMap_get(sendMap[1].db_map, sendSlot[1])
          # SlotMap_get(meta_map[1].db_map, sendSlot[1])

\* The set_meta calls of a proxy that are inside the critical section.
InCritical(p) == {t \in SetThreads : setPc[p][t] \in {"store", "epoch", "run"}}

\* C22: at most one set_meta call is inside the critical section; the
\* snapshot and the epoch are written by the holder of the lock only; and
\* whenever no call is inside, the published epoch is the epoch of the
\* update the installed snapshot was built from.
C22_EpochMatchesSnapshot ==
    /\ [](\A p \in Proxies :
            /\ Cardinality(InCritical(p)) <= 1
            /\ InCritical(p) = {} => epoch[p] = meta_map[p].epoch)
    /\ [][\A p \in Proxies :
            (epoch'[p] # epoch[p] \/ meta_map'[p] # meta_map[p]) =>
                \E t \in InCritical(p) : lock[p] = t
       ]_vars

\* A call has stored its snapshot and not yet the epoch, so the two differ,
\* while the other call waits for the lock.
C22_Witness ==
    /\ setPc[1][1] = "epoch"
    /\ setPc[1][2] = "lock"
    /\ epoch[1] # meta_map[1].epoch
    /\ lock[1] = 1

\* C23: when an accepted set_meta is about to invoke run_tasks and
\* run_deleting_tasks for the tasks it created, it no longer holds the
\* write lock.
C23_LaunchOutsideLock ==
    \A p \in Proxies, t \in SetThreads :
        (setPc[p][t] = "run" /\ setNew[p][t].tasks # {}) => lock[p] # t

\* C24: the step of an accepted set_meta that installs the new snapshot
\* leaves a migration map with a task exactly for the migrating and
\* importing ranges of the new local topology; a task whose range was in the
\* old map is the old task object with its state as it was; the tasks of
\* the other ranges are new objects in their initial state and are exactly
\* the ones kept for launching; the tasks of ranges only in the old map are
\* not in the new map.  The launching step then starts exactly those.
C24_MigrationMapDiff ==
    [][\A p \in Proxies, t \in SetThreads :
          /\ (setPc[p][t] = "store" /\ setPc'[p][t] = "epoch") =>
                LET old == meta_map[p].migration_map
                    new == meta_map'[p].migration_map
                IN /\ DOMAIN new = LocalTaskMetas(setArg[p][t].local)
                   /\ \A k \in DOMAIN new \cap DOMAIN old :
                         /\ new[k] = old[k]
                         /\ tasks'[p][new[k]] = tasks[p][old[k]]
                   /\ \A k \in DOMAIN new \ DOMAIN old :
                         /\ new[k] > Len(tasks[p])
                         /\ tasks'[p][new[k]] = NewTask(k)
                   /\ setNew'[p][t].tasks = {new[k] : k \in DOMAIN new \ DOMAIN old}
                   /\ \A k \in DOMAIN old \ DOMAIN new : old[k] \notin MapRange(new)
          /\ (setPc[p][t] = "run" /\ setPc'[p][t] = "idle") =>
                launched'[p] = launched[p] \cup setNew[p][t].tasks
      ]_vars

\* A second update was accepted whose topology has the migrating range of
\* the first: the task, which a switch had advanced meanwhile, was carried
\* over in that state and nothing was kept for launching.
C24_Witness ==
    /\ meta_map[1].id = 2
    /\ setPc[1][1] = "epoch"
    /\ setNew[1][1].tasks = {}
    /\ \E k \in DOMAIN meta_map[1].migration_map :
          /\ meta_map[1].migration_map[k] = 1
          /\ tasks[1][1].state = "PreCheck"

\* ------------------------------------------------------- writer claims

\* C25: while the connection runs and replies the writer has serialized are
\* not yet on the socket, a flush tick is acted on, also when the writer is
\* waiting for the reply of a later request that has not been answered.
C25_FlushWhileWaiting ==
    (Running(rd) /\ Running(wr) /\ flushed < Len(wire)) =>
        ENABLED handle_write_flush

\* ------------------------------------------------------- switch claims

\* C26: when handle_switch has passed its epoch check for a task of epoch e
\* and is to apply the switch, the snapshot it loads for that was installed
\* by an update of epoch e or later.
C26_SwitchOnCurrentSnapshot ==
    \A p \in Proxies :
        swPc[p] = "apply" => meta_map[p].epoch >= swArg[p].meta.tag.epoch

\* ------------------------------------------------------ routing claims

\* C27: a command is offered to the migration map first; it goes on to the
\* database map only when the migration map has no task for its slot
\* (SlotNotFound); when the migration map takes it or fails with another
\* error the call ends there; and only a command that went on is sent
\* through the database map, so a command has at most one backend path.
C27_AtMostOnePath ==
    [][\A p \in Proxies :
          /\ (sendPc[p] = "idle" /\ sendPc'[p] # "idle") => sendPc'[p] = "migration"
          /\ (sendPc[p] = "migration" /\ sendPc'[p] = "db") =>
                SlotTask(sendMap[p].migration_map, sendSlot[p]) = {}
          /\ (sendPc[p] = "migration" /\ SlotTask(sendMap[p].migration_map, sendSlot[p]) # {}
                /\ sendPc'[p] # "migration") =>
                /\ sendPc'[p] = "idle"
                /\ route'[p].via \in {"migration_map", "error"}
          /\ (sendPc'[p] = "idle" /\ route'[p] # route[p] /\ route'[p].via = "db_map") =>
                sendPc[p] = "db"
      ]_vars

\* The send of the migration map failed for a command whose slot has a task:
\* the call is over and the command went to no backend, though the database
\* map of the same snapshot has an owner for the slot.
C27_Witness ==
    /\ route[1].via = "error"
    /\ route[1].to = ""
    /\ sendPc[1] = "idle"
    /\ SlotMap_get(meta_map[1].db_map, route[1].slot) # ""

\* -------------------------------------------------------- push claims

\* The proxy has installed this very metadata: its snapshot was built from
\* an update of this epoch with these ranges, and the epoch is published.
Installed(p, db_meta) ==
    /\ epoch[p] = db_meta.epoch
    /\ meta_map[p].epoch = db_meta.epoch
    /\ meta_map[p].db_map = from_db_map(db_meta)
    /\ DOMAIN meta_map[p].migration_map = LocalTaskMetas(db_meta.local)

\* C28: every push carries the host's own epoch and no FORCE, and a push of
\* metadata the proxy has installed from an earlier push is turned away at
\* the gate with the snapshot, the published epoch, the task objects and the
\* launched tasks as the earlier push left them.
C28_PushIdempotent ==
    /\ [](smPc # "idle" => (~smCmd.force /\ smCmd.epoch = smHost.epoch))
    /\ [][(setPc[1][2] = "lock" /\ setPc'[1][2] # "lock"
             /\ Installed(1, setArg[1][2])) =>
                /\ setRet'[1][2] = "OldEpoch"
                /\ setPc'[1][2] = "idle"
                /\ UNCHANGED <<meta_map, epoch, tasks, launched, launchedDel>>
         ]_vars

\* The host's metadata was pushed, accepted and its task launched; it was
\* pushed again and the proxy answered the second push with OldEpoch.
C28_Witness ==
    /\ smPc = "reply"
    /\ smExec = [kind |-> "Ok", resp |-> "Error"]
    /\ setRet[1][2] = "OldEpoch"
    /\ Installed(1, [epoch |-> smHost.epoch, force |-> FALSE, local |-> smHost.local])
    /\ meta_map[1].id = 1
    /\ launched[1] # {}

====
